---- MODULE Spec2Model ----
(***************************************************************************)
(* Model of the asynchronous generation job pipeline of the cover          *)
(* generator: app/routers/generate.py (job registry, submit, status,       *)
(* background pipelines, approve, cancel) and the parts of                 *)
(* app/services/storage_service.py the router calls.                       *)
(*                                                                         *)
(* All handlers are coroutines on one event loop.  The code between two    *)
(* `await` expressions of a handler is one atomic step; at every `await`   *)
(* the event loop may run steps of other handlers.  A background task      *)
(* added with BackgroundTasks.add_task starts only after the submitting    *)
(* handler has returned its response.                                      *)
(***************************************************************************)
EXTENDS Integers, Sequences, FiniteSets, TLC

\* ----- bounds of the model -----
MaxJobs == 1
MaxWaiting == 2
MaxTime == 1
MaxWatermark == 4
MaxLen == 8
MaxFit == 2

JobIds == 1..MaxJobs

VARIABLES
    generation_jobs,   \* the registry: job id -> record (generate.py:24)
    pc,                \* per job: position of its background task
    ran,               \* per job: the stages its pipeline has called, in order
    cancelled,         \* jobs on which a cancel_job call has succeeded
    raised,            \* per job: the stage whose call raised, "none" if none did
    unhandled,         \* jobs whose background task ended with an exception
    previews,          \* storage bucket: jobs with an object under previews/
    covers,            \* storage bucket: URLs of objects under covers/
    now,               \* wall clock in seconds (datetime.now().timestamp())
    approving,         \* per job: the approve_generation calls waiting for finalize_image
    resp,              \* the HTTP response a step sends, NoResp when it sends none
    call               \* the last call of a function of the image services, with
                       \* its arguments and its result; NoCall when there was none

vars == <<generation_jobs, pc, ran, cancelled, raised, unhandled, previews, covers, now,
          approving, resp, call>>

\* ----- values -----
None == [folder |-> "none", job |-> 0, ts |-> 0]
NoMessage == "None"
MsgGenerated == "Cover generated successfully"
MsgPreview == "Preview ready for approval"
MsgApproved == "Image approved and saved"
MsgFailed == "Generation failed: e"

Terminal == {"completed", "failed", "cancelled"}

\* storage_service.upload_image: public URL of covers/cover_{job_id}.png
CoverUrl(job_id) == [folder |-> "covers/cover", job |-> job_id, ts |-> 0]

\* storage_service.save_preview: public URL of previews/preview_{job_id}.png
PreviewUrl(job_id) == [folder |-> "previews/preview", job |-> job_id, ts |-> 0]

\* bug: finalize_image answers the public URL of the preview it read
FinalUrl_Mut(job_id, t) == [folder |-> "previews/preview", job |-> job_id, ts |-> 0]

\* storage_service.finalize_image: public URL of
\* covers/final_{job_id}_{int(timestamp)}.png
FinalUrl(job_id, t) == [folder |-> "covers/final", job |-> job_id, ts |-> t]

\* bug: the record is created as already processing
NewRecord_Mut(workflow, watermark) ==
    [status |-> "processing", workflow |-> workflow, watermark_data |-> watermark,
     image_url |-> None, preview_url |-> None, message |-> NoMessage]

\* the record generate_cover / manual_generate put into the registry;
\* workflow and watermark stand for the request snapshot
NewRecord(workflow, watermark) ==
    [status |-> "queued", workflow |-> workflow, watermark_data |-> watermark,
     image_url |-> None, preview_url |-> None, message |-> NoMessage]

\* uuid.uuid4(): an id no earlier submit has returned
NewJobId == Cardinality(DOMAIN generation_jobs) + 1

\* an HTTP response; the fields a response does not carry are empty
Response(op, job_id, code) ==
    [op |-> op, job |-> job_id, code |-> code, status |-> "", image_url |-> None,
     preview_url |-> None, message |-> ""]

\* bug: an unknown id is answered like a refused call
NotFound_Mut(op, job_id) ==
    [Response(op, job_id, 400) EXCEPT !.message = "Job not found"]

\* generate.py:77-78, 95-96, 230-231, 266-267:
\* HTTPException(status_code=404, detail="Job not found")
NotFound(op, job_id) ==
    [Response(op, job_id, 404) EXCEPT !.message = "Job not found"]

NoResp == [op |-> "none", job |-> 0, code |-> 0, status |-> "", image_url |-> None,
           preview_url |-> None, message |-> ""]

NoCall == [fn |-> "none"]

Init ==
    /\ generation_jobs = <<>>
    /\ pc = [j \in JobIds |-> "none"]
    /\ ran = [j \in JobIds |-> <<>>]
    /\ cancelled = {}
    /\ raised = [j \in JobIds |-> "none"]
    /\ unhandled = {}
    /\ previews = {}
    /\ covers = {}
    /\ now = 0
    /\ approving = [j \in JobIds |-> 0]
    /\ resp = NoResp
    /\ call = NoCall

\* ----- submit -----
Submit(workflow, watermark) ==
    /\ Cardinality(DOMAIN generation_jobs) < Cardinality(DOMAIN pc)
    /\ LET job_id == NewJobId IN
        /\ generation_jobs' = generation_jobs @@ (job_id :> NewRecord(workflow, watermark))
        /\ pc' = [pc EXCEPT ![job_id] = "scheduled"]
        /\ resp' = [Response("submit", job_id, 200) EXCEPT !.status = "queued"]
    /\ UNCHANGED <<ran, cancelled, raised, unhandled, previews, covers, now, approving,
                   call>>

generate_cover == Submit("automated", FALSE)

manual_generate == \E watermark \in BOOLEAN : Submit("manual", watermark)

\* ----- the clock -----
\* The clock is read only by finalize_image, for the name of a job's final
\* file, and only equality of two names of the same job is observable.  The
\* clock is therefore normalised: it moves on only while a finalize_image
\* call is pending for a job whose final file name of the present second is
\* in use.
Tick ==
    /\ now < MaxTime
    /\ \E job_id \in DOMAIN pc :
          approving[job_id] > 0 /\ FinalUrl(job_id, now) \in covers
    /\ now' = now + 1
    /\ resp' = NoResp
    /\ UNCHANGED <<generation_jobs, pc, ran, cancelled, raised, unhandled, previews, covers,
                   approving, call>>

\* ----- the background pipelines -----

\* bug: the pipeline starts without writing the status
StartProcessing_Mut(job) == job

\* generate.py:112 / 169: generation_jobs[job_id]["status"] = "processing"
StartProcessing(job) == [job EXCEPT !.status = "processing"]

\* generate.py:148-152: the automated pipeline's final update
CommitCompleted(job, image_url) ==
    [job EXCEPT !.status = "completed", !.image_url = image_url,
                !.message = MsgGenerated]

\* bug: the manual pipeline writes the status and leaves the URL for later
CommitPreview_StatusOnly(job, preview_url) == [job EXCEPT !.status = "preview_ready"]

\* generate.py:210-214: the manual pipeline's final update
CommitPreview(job, preview_url) ==
    [job EXCEPT !.status = "preview_ready", !.preview_url = preview_url,
                !.message = MsgPreview]

\* bug: the exception handler sets the status and forgets the message
CommitFailed_Mut(job) == [job EXCEPT !.status = "failed"]

\* generate.py:158-161 / 220-223: the update of the exception handler
CommitFailed(job) == [job EXCEPT !.status = "failed", !.message = MsgFailed]

\* bug: the write goes to every record of the registry
Write_All(job_id, job) ==
    generation_jobs' = [j \in DOMAIN generation_jobs |-> job]

\* the registry after job_id's record became job
Write(job_id, job) ==
    generation_jobs' = [generation_jobs EXCEPT ![job_id] = job]

\* the background task reaches its first await: the record is set to
\* processing and generate_background is called
PipelineStart(job_id) ==
    /\ pc[job_id] = "scheduled"
    /\ Write(job_id, StartProcessing(generation_jobs[job_id]))
    /\ pc' = [pc EXCEPT ![job_id] = "background"]
    /\ ran' = [ran EXCEPT ![job_id] = Append(@, "background")]
    /\ resp' = NoResp
    /\ UNCHANGED <<cancelled, raised, unhandled, previews, covers, now, approving, call>>

\* `except Exception` of the pipeline: the exception of a stage is caught,
\* the record is set to failed and the task ends normally
HandlerCatches == TRUE

\* bug: a failed task is put back on the schedule
AfterRaise_Retry == "scheduled"

\* generate.py:156-161 / 218-223: the handler is the last statement of the
\* task; after it the task has ended
AfterRaise == "done"

StageRaises(job_id) ==
    /\ Write(job_id, CommitFailed(generation_jobs[job_id]))
    /\ pc' = [pc EXCEPT ![job_id] = AfterRaise]
    /\ raised' = [raised EXCEPT ![job_id] = pc[job_id]]
    /\ unhandled' = IF HandlerCatches THEN unhandled ELSE unhandled \cup {job_id}
    /\ resp' = NoResp
    /\ UNCHANGED <<ran, cancelled, previews, covers, now, approving, call>>

\* a stage returned and the next one is called
StageReturns(job_id, next) ==
    /\ pc' = [pc EXCEPT ![job_id] = next]
    /\ ran' = [ran EXCEPT ![job_id] = Append(@, next)]
    /\ resp' = NoResp
    /\ UNCHANGED <<generation_jobs, cancelled, raised, unhandled, previews, covers, now,
                   approving, call>>

\* bug: the manual pipeline calls add_watermark for every request
AfterText_Always(job) == "watermark"

\* generate.py:194-201: the stage after add_text_overlay in the manual pipeline
AfterText(job) == IF job.watermark_data THEN "watermark" ELSE "store"

\* generate.py:106-161
process_cover_generation(job_id) ==
    /\ job_id \in DOMAIN generation_jobs
    /\ generation_jobs[job_id].workflow = "automated"
    /\ \/ PipelineStart(job_id)
       \/ /\ pc[job_id] = "background"
          /\ \/ StageReturns(job_id, "text")
             \/ StageRaises(job_id)
       \/ /\ pc[job_id] = "text"
          /\ \/ StageReturns(job_id, "store")
             \/ StageRaises(job_id)
       \/ /\ pc[job_id] = "store"
          /\ \/ /\ Write(job_id, CommitCompleted(generation_jobs[job_id],
                                                 CoverUrl(job_id)))
                /\ covers' = covers \cup {CoverUrl(job_id)}
                /\ pc' = [pc EXCEPT ![job_id] = "done"]
                /\ resp' = NoResp
                /\ UNCHANGED <<ran, cancelled, raised, unhandled, previews, now, approving,
                               call>>
             \/ StageRaises(job_id)

\* generate.py:163-223
process_manual_generation(job_id) ==
    /\ job_id \in DOMAIN generation_jobs
    /\ generation_jobs[job_id].workflow = "manual"
    /\ \/ PipelineStart(job_id)
       \/ /\ pc[job_id] = "background"
          /\ \/ StageReturns(job_id, "text")
             \/ StageRaises(job_id)
       \/ /\ pc[job_id] = "text"
          /\ \/ StageReturns(job_id, AfterText(generation_jobs[job_id]))
             \/ StageRaises(job_id)
       \/ /\ pc[job_id] = "watermark"
          /\ \/ StageReturns(job_id, "store")
             \/ StageRaises(job_id)
       \/ /\ pc[job_id] = "store"
          /\ \/ /\ Write(job_id, CommitPreview(generation_jobs[job_id],
                                               PreviewUrl(job_id)))
                /\ previews' = previews \cup {job_id}
                /\ pc' = [pc EXCEPT ![job_id] = "done"]
                /\ resp' = NoResp
                /\ UNCHANGED <<ran, cancelled, raised, unhandled, covers, now, approving,
                               call>>
             \/ StageRaises(job_id)

\* ----- synchronous operations -----

\* generate.py:82-88: the body of a successful status response;
\* job.get("message", "") turns an absent message into ""
StatusResponse(job_id) ==
    LET job == generation_jobs[job_id] IN
    [op |-> "status", job |-> job_id, code |-> 200, status |-> job.status,
     image_url |-> job.image_url, preview_url |-> job.preview_url,
     message |-> IF job.message = NoMessage THEN "" ELSE job.message]

\* generate.py:72-88
get_generation_status(job_id) ==
    /\ resp' = IF job_id \notin DOMAIN generation_jobs
               THEN NotFound("status", job_id)
               ELSE StatusResponse(job_id)
    /\ UNCHANGED <<generation_jobs, pc, ran, cancelled, raised, unhandled, previews, covers,
                   now, approving, call>>

\* bug: get_preview serves every recorded preview
PreviewNotReady_AnyStatus(job) == job.preview_url = None

\* generate.py:100: the guard of get_preview
PreviewNotReady(job) == job.status # "completed" \/ job.preview_url = None

\* generate.py:90-104
get_preview(job_id) ==
    /\ resp' = IF job_id \notin DOMAIN generation_jobs
               THEN NotFound("preview", job_id)
               ELSE IF PreviewNotReady(generation_jobs[job_id])
               THEN [Response("preview", job_id, 404) EXCEPT
                        !.message = "Preview not ready"]
               ELSE [Response("preview", job_id, 200) EXCEPT
                        !.preview_url = generation_jobs[job_id].preview_url]
    /\ UNCHANGED <<generation_jobs, pc, ran, cancelled, raised, unhandled, previews, covers,
                   now, approving, call>>

\* bug: cancel_job refuses completed jobs only
CancelRejected_Mut(status) == status \in {"completed"}

\* bug: cancel_job refuses failed jobs only
CancelRejected_OnlyFailed(status) == status \in {"failed"}

\* bug: cancel_job refuses nothing
CancelRejected_None(status) == FALSE

\* generate.py:271: the statuses cancel_job refuses
CancelRejected(status) == status \in {"completed", "failed"}

\* generate.py:261-277
cancel_job(job_id) ==
    /\ IF job_id \notin DOMAIN generation_jobs
       THEN /\ resp' = NotFound("cancel", job_id)
            /\ UNCHANGED <<generation_jobs, cancelled>>
       ELSE IF CancelRejected(generation_jobs[job_id].status)
       THEN /\ resp' = Response("cancel", job_id, 400)
            /\ UNCHANGED <<generation_jobs, cancelled>>
       ELSE /\ Write(job_id, [generation_jobs[job_id] EXCEPT !.status = "cancelled"])
            /\ cancelled' = cancelled \cup {job_id}
            /\ resp' = Response("cancel", job_id, 200)
    /\ UNCHANGED <<pc, ran, raised, unhandled, previews, covers, now, approving, call>>

\* ----- approve -----

\* generate.py:244-249: the update of a successful approve
CommitApproved(job, final_url) ==
    [job EXCEPT !.status = "completed", !.image_url = final_url,
                !.message = MsgApproved]

\* bug: finalize_image goes on without the preview
DownloadRaises_Mut(job_id) == FALSE

\* storage_service.py:172: download of previews/preview_{job_id}.png fails
\* when the bucket holds no such object
DownloadRaises(job_id) == job_id \notin previews

\* the approve_generation calls that wait for finalize_image, over all jobs
RECURSIVE Waiting(_)
Waiting(n) == IF n = 0 THEN 0 ELSE approving[n] + Waiting(n - 1)

\* bug: approve_generation also lets completed jobs through
ApproveRejected_Mut(status) == status \notin {"preview_ready", "completed"}

\* generate.py:235: the statuses approve_generation refuses
ApproveRejected(status) == status # "preview_ready"

\* generate.py:226-242: approve_generation up to its await; it answers
\* 404 or 400 at once or waits for finalize_image
ApproveCall(job_id) ==
    /\ IF job_id \notin DOMAIN generation_jobs
       THEN /\ resp' = NotFound("approve", job_id)
            /\ UNCHANGED approving
       ELSE IF ApproveRejected(generation_jobs[job_id].status)
       THEN /\ resp' = Response("approve", job_id, 400)
            /\ UNCHANGED approving
       ELSE /\ Waiting(Cardinality(DOMAIN approving)) < MaxWaiting
            /\ resp' = NoResp
            /\ approving' = [approving EXCEPT ![job_id] = @ + 1]
    /\ UNCHANGED <<generation_jobs, pc, ran, cancelled, raised, unhandled, previews,
                   covers, now, call>>

\* bug: a failed finalization marks the job failed
ApproveFails_MarksFailed(job_id) ==
    /\ resp' = Response("approve", job_id, 500)
    /\ Write(job_id, CommitFailed(generation_jobs[job_id]))
    /\ UNCHANGED cancelled

\* generate.py:258-259: finalize_image raised, approve answers 500 and
\* writes nothing to the registry
ApproveFails(job_id) ==
    /\ resp' = Response("approve", job_id, 500)
    /\ UNCHANGED <<generation_jobs, cancelled>>

\* generate.py:242-256 with storage_service.py:164-195: finalize_image runs
\* (download the preview, upload it as final, remove the preview) and, when
\* it returns, the record is updated and the final URL is answered
ApproveReturn(job_id) ==
    /\ approving[job_id] > 0
    /\ approving' = [approving EXCEPT ![job_id] = @ - 1]
    /\ LET final_url == FinalUrl(job_id, now) IN
       \/ /\ DownloadRaises(job_id)
          /\ ApproveFails(job_id)
          /\ UNCHANGED <<previews, covers>>
       \/ /\ ~DownloadRaises(job_id)
          /\ \/ \* the upload answers a status other than 200
                /\ ApproveFails(job_id)
                /\ UNCHANGED <<previews, covers>>
             \/ \* the upload succeeded, removing the preview raises
                /\ ApproveFails(job_id)
                /\ covers' = covers \cup {final_url}
                /\ UNCHANGED previews
             \/ /\ covers' = covers \cup {final_url}
                /\ previews' = previews \ {job_id}
                /\ Write(job_id, CommitApproved(generation_jobs[job_id], final_url))
                /\ resp' = [Response("approve", job_id, 200) EXCEPT
                               !.status = "completed", !.image_url = final_url]
                /\ UNCHANGED cancelled
    /\ UNCHANGED <<pc, ran, raised, unhandled, now, call>>

approve_generation(job_id) ==
    \/ ApproveCall(job_id)
    \/ ApproveReturn(job_id)

Next ==
    \/ generate_cover
    \/ manual_generate
    \/ Tick
    \/ \E job_id \in DOMAIN pc : process_cover_generation(job_id)
    \/ \E job_id \in DOMAIN pc : process_manual_generation(job_id)
    \/ \E job_id \in DOMAIN pc : get_generation_status(job_id)
    \/ \E job_id \in DOMAIN pc : get_preview(job_id)
    \/ \E job_id \in DOMAIN pc : cancel_job(job_id)
    \/ \E job_id \in DOMAIN pc : approve_generation(job_id)

Spec == Init /\ [][Next]_vars

\* the event loop runs every started background task on: a stage that is
\* awaited returns or raises, and the task then takes its next step
FairSpec ==
    /\ Spec
    /\ \A job_id \in JobIds :
          /\ WF_vars(process_cover_generation(job_id))
          /\ WF_vars(process_manual_generation(job_id))

\* the event loop starts every scheduled background task; whether an awaited
\* stage ever returns or raises is up to the model service and the storage
\* service, and the pipelines put no time limit on an await
HangSpec ==
    /\ Spec
    /\ \A job_id \in JobIds : WF_vars(PipelineStart(job_id))

\* the server after an automated job has been submitted and has completed,
\* with room for further submits
PairInit ==
    /\ generation_jobs =
          (1 :> CommitCompleted(StartProcessing(NewRecord("automated", FALSE)), CoverUrl(1)))
    /\ pc = [j \in 1..(MaxJobs + 1) |-> IF j = 1 THEN "done" ELSE "none"]
    /\ ran = [j \in 1..(MaxJobs + 1) |->
                IF j = 1 THEN <<"background", "text", "store">> ELSE <<>>]
    /\ cancelled = {}
    /\ raised = [j \in 1..(MaxJobs + 1) |-> "none"]
    /\ unhandled = {}
    /\ previews = {}
    /\ covers = {CoverUrl(1)}
    /\ now = 0
    /\ approving = [j \in 1..(MaxJobs + 1) |-> 0]
    /\ resp = NoResp
    /\ call = NoCall

PairSpec == PairInit /\ [][Next]_vars

\* ----- the image services -----

\* the state of the server while only functions of the image services are
\* called: the registry is empty and stays so
Idle == UNCHANGED <<generation_jobs, pc, ran, cancelled, raised, unhandled, previews,
                    covers, now, approving, resp>>

\* layout_aware_generator.py:18-46: the zone table; an area is
\* (x1, y1, x2, y2) in hundredths of the canvas width and height
layout_zones ==
    [watermark_zone |-> [area |-> <<20, 75, 80, 95>>, avoid |-> TRUE],
     title_zone |-> [area |-> <<10, 10, 90, 40>>, avoid |-> TRUE],
     subtitle_zone |-> [area |-> <<15, 35, 85, 50>>, avoid |-> TRUE],
     logo_zone |-> [area |-> <<5, 5, 25, 25>>, avoid |-> FALSE],
     safe_content_zone |-> [area |-> <<0, 50, 100, 75>>, avoid |-> FALSE]]

\* layout_aware_generator.py:16: self.layout_zones = self._define_layout_zones()
define_layout_zones ==
    /\ call' = [fn |-> "_define_layout_zones", out |-> layout_zones]
    /\ Idle

\* requests.py:5-7, 24-30: the sizes a request can ask for, as (width, height)
RequestSize(size) == IF size = "HD" THEN <<1920, 1080>> ELSE <<1800, 900>>

\* config.py:25-26
IMAGE_WIDTH == 1800
IMAGE_HEIGHT == 900

\* python truth value of an Optional[str]
Truthy(str) == str \notin {"None", ""}

\* ai_service.py:183-198: the theme _build_crypto_prompt adds for a client;
\* client_id is the set of the keywords client_id.lower() contains
ClientTheme(client_id) ==
    IF "xdc" \in client_id THEN <<"XDC network theme">>
    ELSE IF "hedera" \in client_id \/ "hbar" \in client_id
    THEN <<"Hedera hashgraph theme">>
    ELSE IF "algorand" \in client_id THEN <<"Algorand blockchain theme">>
    ELSE IF "constellation" \in client_id THEN <<"Constellation DAG theme">>
    ELSE IF "hashpack" \in client_id THEN <<"Hedera wallet theme">>
    ELSE IF "tha" \in client_id THEN <<"THA blockchain theme">>
    ELSE IF "genfinity" \in client_id THEN <<"Genfinity media theme">>
    ELSE <<>>

\* ai_service.py:200-207: the fragment added for the title; enhancement is
\* the set of the keywords enhancement.lower() contains
TitleFragment(enhancement) ==
    IF "bitcoin" \in enhancement THEN <<"bitcoin orange theme">>
    ELSE IF "ethereum" \in enhancement THEN <<"ethereum blue theme">>
    ELSE IF "defi" \in enhancement THEN <<"decentralized finance symbols">>
    ELSE <<>>

\* ai_service.py:172-212: a prompt is the sequence of its comma separated
\* parts; an absent client_id or enhancement is the empty set
build_crypto_prompt(enhancement, client_id) ==
    <<"professional cryptocurrency background, modern digital finance">>
       \o ClientTheme(client_id) \o TitleFragment(enhancement)
       \o <<"high quality, professional, clean composition, 8k resolution">>

\* bug: the quality suffix is added to a custom prompt as well
BasePrompt_Suffixed(custom_prompt, enhancement, client_id) ==
    IF Truthy(custom_prompt)
    THEN <<custom_prompt, "high quality, professional, clean composition, 8k resolution">>
    ELSE build_crypto_prompt(enhancement, client_id)

\* ai_service.py:131-135
BasePrompt(custom_prompt, enhancement, client_id) ==
    IF Truthy(custom_prompt)
    THEN <<custom_prompt>>
    ELSE build_crypto_prompt(enhancement, client_id)

ClientIds == {{}, {"xdc"}, {"hedera"}, {"hbar", "hashpack"}, {"genfinity"}}

Enhancements == {{}, {"bitcoin"}, {"ethereum", "defi"}, {"defi"}}

CustomPrompts == {"None", "", "a lighthouse at dawn"}

\* ai_service.py:118-170: the parameters generate_background hands to the
\* pipeline
generate_background ==
    \E client_id \in ClientIds, enhancement \in Enhancements,
       custom_prompt \in CustomPrompts :
       /\ call' = [fn |-> "generate_background", client_id |-> client_id,
                   enhancement |-> enhancement, custom_prompt |-> custom_prompt,
                   prompt |-> BasePrompt(custom_prompt, enhancement, client_id),
                   width |-> IMAGE_WIDTH, height |-> IMAGE_HEIGHT]
       /\ Idle

\* ai_service.py:302-383: add_text_overlay draws on a copy of the image and
\* does not use its size argument; the result has the size of the image
add_text_overlay(image, size) == image

\* generate.py:122-145 / 179-207: the size of the cover a pipeline stores
\* for a request of the given size
render_cover ==
    \E size \in {"STANDARD", "HD"} :
       LET background == <<IMAGE_WIDTH, IMAGE_HEIGHT>>
           cover == add_text_overlay(background, RequestSize(size))
       IN /\ call' = [fn |-> "render_cover", size |-> size,
                      background |-> background, out |-> cover]
          /\ Idle

\* requests.py:9-14: the configured watermark positions
WatermarkPositions == {"top-left", "top-right", "bottom-left", "bottom-right", "center"}

\* ai_service.py:408: new_height = int(watermark.height * ratio), where
\* ratio = max_watermark_width / watermark.width is a float.  When the exact
\* quotient is a whole number the rounding of the two float operations
\* decides whether int() sees that number or a value just below it; both
\* results are admitted
NewHeights(width, height, max_watermark_width) ==
    LET exact == (height * max_watermark_width) \div width IN
    IF (height * max_watermark_width) % width = 0 /\ exact > 0
    THEN {exact - 1, exact}
    ELSE {exact}

\* ai_service.py:406: the condition under which the watermark is resized
Oversized(watermark, max_watermark_width) == watermark[1] > max_watermark_width

\* ai_service.py:428: positions.get(position, positions["bottom-right"])
Fallback == "bottom-right"

\* ai_service.py:418-426: the corner the watermark is pasted at, margin = 20
Positions(image, wm) ==
    [top_left |-> <<20, 20>>,
     top_right |-> <<image[1] - wm[1] - 20, 20>>,
     bottom_left |-> <<20, image[2] - wm[2] - 20>>,
     bottom_right |-> <<image[1] - wm[1] - 20, image[2] - wm[2] - 20>>,
     center |-> <<(image[1] - wm[1]) \div 2, (image[2] - wm[2]) \div 2>>]

\* the key of Positions for a position name
Key(position) ==
    CASE position = "top-left" -> "top_left"
      [] position = "top-right" -> "top_right"
      [] position = "bottom-left" -> "bottom_left"
      [] position = "bottom-right" -> "bottom_right"
      [] position = "center" -> "center"

\* ai_service.py:396, 439-441: watermark_data is no image, Image.open raises
\* and add_watermark raises in turn
WatermarkUnreadable(image, position) ==
    [fn |-> "add_watermark", image |-> image, watermark |-> <<0, 0>>,
     position |-> position, raised |-> TRUE, size |-> <<0, 0>>, placed |-> "none",
     pos |-> <<0, 0>>, out |-> <<0, 0>>]

\* ai_service.py:385-441: image and watermark are (width, height)
add_watermark ==
    \E image \in {RequestSize("STANDARD"), RequestSize("HD")},
       w \in 1..MaxWatermark, h \in 1..MaxWatermark,
       position \in WatermarkPositions \cup {"middle"} :
       LET watermark == <<90 * w, 90 * h>>
           max_watermark_width == image[1] \div 10
       IN \/ call' = WatermarkUnreadable(image, position) /\ Idle
          \/ \E new_height \in NewHeights(watermark[1], watermark[2], max_watermark_width) :
             LET wm == IF Oversized(watermark, max_watermark_width)
                       THEN <<max_watermark_width, new_height>>
                       ELSE watermark
                 used == IF position \in WatermarkPositions THEN position ELSE Fallback
             IN /\ call' = [fn |-> "add_watermark", image |-> image,
                            watermark |-> watermark, position |-> position,
                            raised |-> FALSE, size |-> wm, placed |-> used,
                            pos |-> Positions(image, wm)[Key(used)], out |-> image]
                /\ Idle

ImageNext ==
    \/ define_layout_zones
    \/ generate_background
    \/ render_cover
    \/ add_watermark

\* the image services called one function at a time, with no job submitted
ImageSpec == Init /\ [][ImageNext]_vars

\* ----- the text wrapping of the generators -----

\* a text is the sequence of its characters
Chars == {"a", "b", " "}

Texts == UNION {[1..n -> Chars] : n \in 0..MaxLen}

\* str.split(): the maximal runs of characters other than whitespace
RECURSIVE SplitFrom(_, _, _, _)
SplitFrom(text, i, word, words) ==
    IF i > Len(text)
    THEN IF word = <<>> THEN words ELSE Append(words, word)
    ELSE IF text[i] = " "
    THEN SplitFrom(text, i + 1, <<>>, IF word = <<>> THEN words ELSE Append(words, word))
    ELSE SplitFrom(text, i + 1, Append(word, text[i]), words)

Split(text) == SplitFrom(text, 1, <<>>, <<>>)

\* " ".join(words)
RECURSIVE Join(_)
Join(words) ==
    IF words = <<>> THEN <<>>
    ELSE IF Len(words) = 1 THEN words[1]
    ELSE words[1] \o <<" ">> \o Join(Tail(words))

\* str.upper()
Upper(text) ==
    [i \in 1..Len(text) |->
        CASE text[i] = "a" -> "A" [] text[i] = "b" -> "B" [] OTHER -> text[i]]

\* bbox[2] - bbox[0] of draw.textbbox((0, 0), line, font=font) and of
\* font.getbbox(line), in units of the advance of one character: every
\* character of the font is taken to be equally wide
Width(line) == Len(line)

\* refined_logo_generator.py:111-126: the loop over the split points i, with
\* best_ratio kept as the fraction best[2] / best[3] and best_split None as 0
RECURSIVE BestSplit(_, _, _)
BestSplit(words, i, best) ==
    IF i >= Len(words) THEN best[1]
    ELSE LET width1 == Width(Join(SubSeq(words, 1, i)))
             width2 == Width(Join(SubSeq(words, i + 1, Len(words))))
         IN IF /\ width2 > 0
               /\ width1 * best[3] > best[2] * width2
               /\ 10 * width1 >= 12 * width2
            THEN BestSplit(words, i + 1, <<i, width1, width2>>)
            ELSE BestSplit(words, i + 1, best)

\* refined_logo_generator.py:101-136
smart_line_breaking(title) ==
    LET words == Split(title) IN
    IF Len(words) <= 2 THEN <<title>>
    ELSE LET found == BestSplit(words, 1, <<0, 0, 1>>)
             best_split == IF found = 0 THEN Len(words) \div 2 + 1 ELSE found
         IN <<Join(SubSeq(words, 1, best_split)),
              Join(SubSeq(words, best_split + 1, Len(words)))>>

\* large_text_generator.py:100-121: the title lines; fit is 90% of the
\* canvas width
title_lines(text, fit) ==
    LET title == Upper(text) IN
    IF Width(title) > fit
    THEN LET words == Split(title) IN
         IF Len(words) > 1
         THEN LET best_split == Len(words) \div 2 IN
              <<Join(SubSeq(words, 1, best_split)),
                Join(SubSeq(words, best_split + 1, Len(words)))>>
         ELSE LET mid == Len(title) \div 2 IN
              <<SubSeq(title, 1, mid), SubSeq(title, mid + 1, Len(title))>>
    ELSE <<title>>

\* bug: a word that does not fit behind the current line is left out
WrapWord_Drops(wrap, word, max_width) ==
    IF Width(Join(Append(wrap.current_line, word))) <= max_width
    THEN [wrap EXCEPT !.current_line = Append(@, word)]
    ELSE IF wrap.current_line # <<>>
    THEN [lines |-> Append(wrap.lines, Join(wrap.current_line)), current_line |-> <<>>]
    ELSE [wrap EXCEPT !.lines = Append(@, word)]

\* simple_generator.py:98-108: the body of the loop over the words
WrapWord(wrap, word, max_width) ==
    IF Width(Join(Append(wrap.current_line, word))) <= max_width
    THEN [wrap EXCEPT !.current_line = Append(@, word)]
    ELSE IF wrap.current_line # <<>>
    THEN [lines |-> Append(wrap.lines, Join(wrap.current_line)),
          current_line |-> <<word>>]
    ELSE [wrap EXCEPT !.lines = Append(@, word)]

RECURSIVE WrapFrom(_, _, _, _)
WrapFrom(words, i, wrap, max_width) ==
    IF i > Len(words) THEN wrap
    ELSE WrapFrom(words, i + 1, WrapWord(wrap, words[i], max_width), max_width)

\* simple_generator.py:91-112
wrap_text(text, max_width) ==
    LET wrap == WrapFrom(Split(text), 1, [lines |-> <<>>, current_line |-> <<>>],
                         max_width)
    IN IF wrap.current_line # <<>>
       THEN Append(wrap.lines, Join(wrap.current_line))
       ELSE wrap.lines

\* a text and a width, before a wrapping function is called on them
TextInit ==
    /\ generation_jobs = <<>>
    /\ pc = [j \in JobIds |-> "none"]
    /\ ran = [j \in JobIds |-> <<>>]
    /\ cancelled = {}
    /\ raised = [j \in JobIds |-> "none"]
    /\ unhandled = {}
    /\ previews = {}
    /\ covers = {}
    /\ now = 0
    /\ approving = [j \in JobIds |-> 0]
    /\ resp = NoResp
    /\ call \in [fn : {"input"}, text : Texts, fit : 2..(MaxFit + 1)]

CallSmartLineBreaking ==
    /\ call.fn = "input"
    /\ call' = [fn |-> "smart_line_breaking", text |-> call.text, fit |-> call.fit,
                out |-> smart_line_breaking(call.text)]
    /\ Idle

CallTitleLines ==
    /\ call.fn = "input"
    /\ call' = [fn |-> "title_lines", text |-> call.text, fit |-> call.fit,
                out |-> title_lines(call.text, call.fit)]
    /\ Idle

CallWrapText ==
    /\ call.fn = "input"
    /\ call' = [fn |-> "wrap_text", text |-> call.text, fit |-> call.fit,
                out |-> wrap_text(call.text, call.fit)]
    /\ Idle

TextNext ==
    \/ CallSmartLineBreaking
    \/ CallTitleLines
    \/ CallWrapText

\* the wrapping functions, each applied to every text and width
TextSpec == TextInit /\ [][TextNext]_vars

\* ----- properties -----

Jobs == DOMAIN generation_jobs

Status(job_id) == generation_jobs[job_id].status

HasResult(job) == job.image_url # None \/ job.preview_url # None

\* the transition table of the job state machine
Allowed ==
    {<<"queued", "processing">>, <<"processing", "completed">>,
     <<"processing", "preview_ready">>, <<"processing", "failed">>,
     <<"queued", "cancelled">>, <<"processing", "cancelled">>,
     <<"preview_ready", "completed">>, <<"preview_ready", "failed">>,
     <<"preview_ready", "cancelled">>}

\* C1: every change of a job's status is a transition of the state machine,
\* and a status of completed, failed or cancelled never changes again
C1_LegalTransitions ==
    [][\A job_id \in Jobs :
          Status(job_id)' # Status(job_id)
             => <<Status(job_id), Status(job_id)'>> \in Allowed]_vars

\* C2: a job cancelled while it is queued or while a stage of its pipeline is
\* in flight stays cancelled and acquires no result, whatever step comes next
C2_CancelSticks ==
    [][\A job_id \in Jobs :
          Status(job_id) = "cancelled" /\ pc[job_id] # "done"
             => /\ Status(job_id)' = "cancelled"
                /\ ~HasResult(generation_jobs[job_id]')]_vars

\* an approve call on job_id has succeeded
Approved(job_id) == generation_jobs[job_id].message = MsgApproved

\* C3: once one approve call on a job has succeeded, every other approve call
\* on that job, issued later or still waiting for finalization, is answered
\* 400
C3_ApproveOnce ==
    [][\A job_id \in Jobs :
          Approved(job_id) /\ resp'.op = "approve" /\ resp'.job = job_id
             => resp'.code = 400]_vars

\* C4: once a job is completed its image_url never changes
C4_ResultStable ==
    [][\A job_id \in Jobs :
          Status(job_id) = "completed"
             => generation_jobs[job_id]'.image_url
                   = generation_jobs[job_id].image_url]_vars

\* an approve call that was waiting when the job completed has run
\* finalize_image afterwards
C4_Witness ==
    /\ resp.op = "approve"
    /\ resp.code = 500
    /\ resp.job \in Jobs
    /\ Status(resp.job) = "completed"
    /\ now > generation_jobs[resp.job].image_url.ts

\* C5: a record holds a preview_url or image_url exactly when its status is
\* preview_ready or completed
C5_ResultIffParked ==
    \A job_id \in Jobs :
        HasResult(generation_jobs[job_id])
           <=> Status(job_id) \in {"preview_ready", "completed"}

\* C6: a record holds the failure message of the pipeline's exception
\* handler exactly when its status is failed
C6_ErrorIffFailed ==
    \A job_id \in Jobs :
        generation_jobs[job_id].message = MsgFailed <=> Status(job_id) = "failed"

\* a stage raised in a job that a cancel had reached before
C6_Witness ==
    \E job_id \in Jobs :
        /\ Status(job_id) = "failed"
        /\ job_id \in cancelled
        /\ resp.op = "cancel" /\ resp.job = job_id /\ resp.code = 400

\* C7: when submit answers, the record exists with status queued and the
\* pipeline has taken no step; a job waiting for its pipeline is queued
\* unless cancelled; get on a submitted id never answers 404
C7_SubmitVisible ==
    /\ resp.op = "submit"
          => /\ resp.job \in Jobs
             /\ Status(resp.job) = "queued"
             /\ resp.status = "queued"
             /\ pc[resp.job] = "scheduled"
             /\ ran[resp.job] = <<>>
    /\ \A job_id \in JobIds :
          /\ pc[job_id] # "none" => job_id \in Jobs
          /\ pc[job_id] = "scheduled" /\ job_id \notin cancelled
                => Status(job_id) = "queued"
          /\ pc[job_id] # "none" /\ resp.op = "status" /\ resp.job = job_id
                => resp.code = 200

\* get finds a submitted job as queued before its pipeline started
C7_Witness ==
    /\ resp.op = "status"
    /\ resp.code = 200
    /\ resp.status = "queued"
    /\ pc[resp.job] = "scheduled"

Automated(job_id) ==
    job_id \in Jobs /\ generation_jobs[job_id].workflow = "automated"

Manual(job_id) ==
    job_id \in Jobs /\ generation_jobs[job_id].workflow = "manual"

\* C8: an automated job that is never cancelled changes status only from
\* queued to processing and from processing to completed or, when a stage
\* raises, to failed; once scheduled it eventually is completed unless a
\* stage raised or it was cancelled; and while it is completed get answers
\* with a non-empty image_url
C8_AutomatedRun ==
    /\ [][\A job_id \in Jobs :
             /\ Automated(job_id)
             /\ job_id \notin cancelled'
             /\ Status(job_id)' # Status(job_id)
             => <<Status(job_id), Status(job_id)'>>
                   \in {<<"queued", "processing">>, <<"processing", "completed">>,
                        <<"processing", "failed">>}]_vars
    /\ \A job_id \in JobIds :
          [](Automated(job_id) /\ pc[job_id] = "scheduled"
                => <>(\/ Automated(job_id) /\ Status(job_id) = "completed"
                      \/ raised[job_id] # "none"
                      \/ job_id \in cancelled))
    /\ [](\A job_id \in Jobs :
             Automated(job_id) /\ Status(job_id) = "completed"
                => /\ StatusResponse(job_id).code = 200
                   /\ StatusResponse(job_id).image_url # None)

\* get answers completed with the cover's URL for an automated job that was
\* never cancelled and whose stages all returned
C8_Witness ==
    /\ resp.op = "status"
    /\ resp.status = "completed"
    /\ resp.image_url = CoverUrl(resp.job)
    /\ Automated(resp.job)
    /\ resp.job \notin cancelled
    /\ ran[resp.job] = <<"background", "text", "store">>

\* C9: the pipeline of a manual job never sets completed: when its last stage
\* returns the job is preview_ready with a preview_url, and the step that
\* makes the job completed is a successful approve whose final image_url
\* differs from the preview_url
C9_ManualApproval ==
    [][\A job_id \in Jobs :
          Manual(job_id)
             => /\ pc[job_id] = "store" /\ pc'[job_id] = "done"
                   /\ raised'[job_id] = "none"
                      => /\ Status(job_id)' = "preview_ready"
                         /\ generation_jobs[job_id]'.preview_url # None
                /\ Status(job_id)' = "completed" /\ Status(job_id) # "completed"
                      => /\ pc[job_id] = "done"
                         /\ resp'.op = "approve" /\ resp'.job = job_id
                         /\ resp'.code = 200
                         /\ resp'.image_url = generation_jobs[job_id]'.image_url
                         /\ generation_jobs[job_id]'.image_url # None
                         /\ generation_jobs[job_id]'.image_url
                               # generation_jobs[job_id]'.preview_url]_vars

\* a manual job was approved
C9_Witness ==
    \E job_id \in Jobs :
        /\ Manual(job_id)
        /\ Status(job_id) = "completed"
        /\ generation_jobs[job_id].preview_url = PreviewUrl(job_id)
        /\ generation_jobs[job_id].image_url.folder = "covers/final"

Last(seq) == seq[Len(seq)]

\* C10: when a stage of a job raised, the stage that raised is the last one
\* the job ran, the exception did not leave the background task, and, unless
\* the job was cancelled, the job is failed with the failure message and
\* without image_url and preview_url
C10_StageFailure ==
    \A job_id \in Jobs :
        raised[job_id] # "none"
           => /\ pc[job_id] = "done"
              /\ Last(ran[job_id]) = raised[job_id]
              /\ job_id \notin unhandled
              /\ job_id \notin cancelled
                    => /\ Status(job_id) = "failed"
                       /\ generation_jobs[job_id].message = MsgFailed
                       /\ generation_jobs[job_id].message # ""
                       /\ ~HasResult(generation_jobs[job_id])

\* the storage upload of a job that was not cancelled raised
C10_Witness ==
    \E job_id \in Jobs :
        /\ raised[job_id] = "store"
        /\ job_id \notin cancelled
        /\ Len(ran[job_id]) >= 3

\* C11: a cancel call on a completed or failed job answers 400 and leaves
\* the whole registry as it was
C11_CancelTerminalRejected ==
    [][\A job_id \in Jobs :
          /\ Status(job_id) \in {"completed", "failed"}
          /\ resp'.op = "cancel" /\ resp'.job = job_id
          => /\ resp'.code = 400
             /\ generation_jobs' = generation_jobs
             /\ cancelled' = cancelled]_vars

\* cancel was refused on a completed job
C11_Witness ==
    /\ resp.op = "cancel"
    /\ resp.code = 400
    /\ resp.job \in Jobs
    /\ Status(resp.job) = "completed"

\* C12: an approve call that arrives while the job's status is not
\* preview_ready answers 400 at once: it does not go on to finalize_image,
\* storage is untouched and the registry is as it was
C12_ApproveNotReadyRejected ==
    [][\A job_id \in Jobs :
          Status(job_id) # "preview_ready"
             => /\ approving'[job_id] <= approving[job_id]
                /\ resp'.op = "approve" /\ resp'.job = job_id
                   /\ approving' = approving
                   => /\ resp'.code = 400
                      /\ previews' = previews
                      /\ covers' = covers
                      /\ generation_jobs' = generation_jobs]_vars

\* approve was refused on a job that is completed
C12_Witness ==
    /\ resp.op = "approve"
    /\ resp.code = 400
    /\ resp.job \in Jobs
    /\ Status(resp.job) = "completed"
    /\ approving[resp.job] = 0

\* C13: get, get_preview, approve and cancel on an id that no submit has
\* returned answer 404, start no finalization and leave the registry as it was
C13_UnknownIdNotFound ==
    [][\A job_id \in JobIds \ Jobs :
          /\ approving'[job_id] = approving[job_id]
          /\ resp'.op \in {"status", "preview", "approve", "cancel"}
             /\ resp'.job = job_id
             => /\ resp'.code = 404
                /\ generation_jobs' = generation_jobs]_vars

\* an unknown id was answered 404 by approve
C13_Witness ==
    /\ resp.op = "approve"
    /\ resp.code = 404
    /\ resp.job \notin Jobs

\* C14: a job that is processing while a stage of its pipeline is awaited
\* eventually leaves processing, also when the awaited call never returns
C14_NoStuckProcessing ==
    \A job_id \in JobIds :
       [](job_id \in Jobs /\ Status(job_id) = "processing"
             => <>(job_id \in Jobs /\ Status(job_id) # "processing"))

\* C15: when an approve call returns from a finalization that stored the
\* final file and did not get the preview deleted, the call answers 200 with
\* the final URL and the job is completed
C15_CleanupBestEffort ==
    [][\A job_id \in Jobs :
          /\ approving'[job_id] < approving[job_id]
          /\ FinalUrl(job_id, now) \notin covers
          /\ FinalUrl(job_id, now) \in covers'
          /\ job_id \in previews'
          => /\ resp'.op = "approve"
             /\ resp'.code = 200
             /\ resp'.image_url = FinalUrl(job_id, now)
             /\ Status(job_id)' = "completed"]_vars

\* C16: a cancel call on a job whose status is cancelled answers 400 and
\* leaves the job record as it was
C16_CancelCancelledRejected ==
    [][\A job_id \in Jobs :
          /\ Status(job_id) = "cancelled"
          /\ resp'.op = "cancel" /\ resp'.job = job_id
          => /\ resp'.code = 400
             /\ generation_jobs'[job_id] = generation_jobs[job_id]]_vars

\* C17: no step removes a job from the registry, a status request for a
\* registered job answers 200, and a failed job stays failed with the message
\* of its failure, which the status request reports
C17_JobsKept ==
    [][/\ Jobs \subseteq DOMAIN generation_jobs'
       /\ \A job_id \in Jobs :
             /\ resp'.op = "status" /\ resp'.job = job_id => resp'.code = 200
             /\ Status(job_id) = "failed"
                => /\ Status(job_id)' = "failed"
                   /\ generation_jobs'[job_id].message = generation_jobs[job_id].message
                   /\ resp'.op = "status" /\ resp'.job = job_id
                      => /\ resp'.status = "failed"
                         /\ resp'.message = MsgFailed]_vars

\* get reports a failed job with its failure message; the job had been
\* cancelled while its pipeline ran
C17_Witness ==
    /\ resp.op = "status"
    /\ resp.job \in Jobs
    /\ resp.code = 200
    /\ resp.status = "failed"
    /\ resp.message = MsgFailed
    /\ resp.job \in cancelled

\* C18: in every state a record that is completed has its image_url and a
\* record that is preview_ready has its preview_url, and so does every
\* answer of get, whatever steps of the pipeline, approve and cancel came
\* before it
C18_NoHalfWritten ==
    /\ \A job_id \in Jobs :
          /\ Status(job_id) = "completed"
                => generation_jobs[job_id].image_url # None
          /\ Status(job_id) = "preview_ready"
                => generation_jobs[job_id].preview_url # None
    /\ resp.op = "status" /\ resp.code = 200
          => /\ resp.status = "completed" => resp.image_url # None
             /\ resp.status = "preview_ready" => resp.preview_url # None

\* get reports preview_ready with the preview URL while an approve call is
\* waiting for its finalization
C18_Witness ==
    /\ resp.op = "status"
    /\ resp.job \in Jobs
    /\ resp.status = "preview_ready"
    /\ resp.preview_url = PreviewUrl(resp.job)
    /\ approving[resp.job] > 0

\* the stages in the sequence stages
Stages(stages) == {stages[i] : i \in 1..Len(stages)}

\* C19: the pipeline of every submitted job is started, and started once:
\* the job enters processing only with no stage called yet, every stage
\* call is a stage not called before for the job, and no stage is called
\* and no status is written for a job that has failed
C19_RunOnce ==
    /\ [][\A job_id \in Jobs :
             /\ Status(job_id)' = "processing" /\ Status(job_id) # "processing"
                => ran[job_id] = <<>> /\ Len(ran'[job_id]) = 1
             /\ ran'[job_id] # ran[job_id]
                => \E stage \in {"background", "text", "watermark", "store"} :
                      /\ stage \notin Stages(ran[job_id])
                      /\ ran'[job_id] = Append(ran[job_id], stage)
             /\ Status(job_id) = "failed"
                => /\ ran'[job_id] = ran[job_id]
                   /\ pc'[job_id] = pc[job_id]
                   /\ Status(job_id)' = "failed"]_vars
    /\ \A job_id \in JobIds :
          <>[](job_id \in Jobs => ran[job_id] # <<>>)

\* a job failed in its last stage and was asked for afterwards; every stage
\* of its pipeline was called once
C19_Witness ==
    /\ resp.op = "status"
    /\ resp.status = "failed"
    /\ resp.job \in Jobs
    /\ raised[resp.job] = "store"
    /\ ran[resp.job] = <<"background", "text", "watermark", "store">>
    /\ pc[resp.job] = "done"

\* the stage calls of a whole run of job's pipeline, in the order of the code
StageOrder(job) ==
    IF job.workflow = "manual" /\ job.watermark_data
    THEN <<"background", "text", "watermark", "store">>
    ELSE <<"background", "text", "store">>

\* C20: the stages a job has called are an initial part of background, text,
\* watermark (manual requests with watermark data only), store; the stage in
\* flight is the last one called, so a stage is called only after the one
\* before it returned; and a record carries a URL of the pipeline only when
\* all stages were called, the storage call has returned and stored the file
C20_StageOrder ==
    \A job_id \in Jobs :
       LET job == generation_jobs[job_id] IN
       /\ Len(ran[job_id]) <= Len(StageOrder(job))
       /\ ran[job_id] = SubSeq(StageOrder(job), 1, Len(ran[job_id]))
       /\ pc[job_id] \in {"background", "text", "watermark", "store"}
             => pc[job_id] = Last(ran[job_id])
       /\ pc[job_id] = "scheduled" <=> ran[job_id] = <<>>
       /\ job.image_url = CoverUrl(job_id) \/ job.preview_url # None
             => /\ ran[job_id] = StageOrder(job)
                /\ pc[job_id] = "done"
                /\ raised[job_id] = "none"
       /\ job.image_url = CoverUrl(job_id) => CoverUrl(job_id) \in covers
       /\ job.status = "preview_ready" => job_id \in previews

\* a manual job with watermark data has its preview after all four stages
C20_Witness ==
    \E job_id \in Jobs :
       /\ generation_jobs[job_id].watermark_data
       /\ generation_jobs[job_id].preview_url = PreviewUrl(job_id)
       /\ ran[job_id] = <<"background", "text", "watermark", "store">>
       /\ Status(job_id) = "preview_ready"

\* C27: the record of a job changes only in a step that acts on that job
\* (a step of its pipeline, the return of an approve call on it, a cancel
\* call on it), a step that acts on one job changes the record of no other
\* job, and a submit adds one record and changes none
C27_JobsIndependent ==
    [][/\ \A job_id \in Jobs :
             generation_jobs'[job_id] # generation_jobs[job_id]
                => /\ \/ pc'[job_id] # pc[job_id]
                      \/ approving'[job_id] < approving[job_id]
                      \/ resp'.op = "cancel" /\ resp'.job = job_id
                   /\ \A other \in Jobs \ {job_id} :
                         generation_jobs'[other] = generation_jobs[other]
       /\ \A job_id \in Jobs :
             \/ pc'[job_id] # pc[job_id]
             \/ approving'[job_id] # approving[job_id]
             \/ resp'.op \in {"status", "preview", "approve", "cancel"}
                /\ resp'.job = job_id
             => \A other \in Jobs \ {job_id} :
                   /\ generation_jobs'[other] = generation_jobs[other]
                   /\ pc'[other] = pc[other]
                   /\ ran'[other] = ran[other]
       /\ DOMAIN generation_jobs' # Jobs
             => /\ Jobs \subseteq DOMAIN generation_jobs'
                /\ Cardinality(DOMAIN generation_jobs') = Cardinality(Jobs) + 1
                /\ \A job_id \in Jobs :
                      generation_jobs'[job_id] = generation_jobs[job_id]]_vars

\* a second job was approved while the first job is in the registry
C27_Witness ==
    /\ Cardinality(Jobs) = 2
    /\ resp.op = "approve"
    /\ resp.code = 200
    /\ resp.job = 2
    /\ Status(1) = "completed"
    /\ generation_jobs[1].image_url = CoverUrl(1)

\* C28: an approve call that answers 500 leaves the registry as it was; a
\* job that was preview_ready is preview_ready afterwards with the same
\* preview_url, so that a further approve call is not refused
C28_FailedApproveKeepsRecord ==
    [][\A job_id \in Jobs :
          /\ resp'.op = "approve" /\ resp'.job = job_id
          /\ resp'.code = 500
          => /\ approving'[job_id] < approving[job_id]
             /\ generation_jobs' = generation_jobs
             /\ Status(job_id) = "preview_ready"
                => /\ ~ApproveRejected(generation_jobs'[job_id].status)
                   /\ generation_jobs'[job_id].preview_url = PreviewUrl(job_id)]_vars

\* approve answered 500 and the job is preview_ready with its preview
C28_Witness ==
    /\ resp.op = "approve"
    /\ resp.code = 500
    /\ resp.job \in Jobs
    /\ Status(resp.job) = "preview_ready"
    /\ generation_jobs[resp.job].preview_url = PreviewUrl(resp.job)
    /\ resp.job \in previews
    /\ covers = {}

Overlap(a, b) == a[1] < b[3] /\ b[1] < a[3] /\ a[2] < b[4] /\ b[2] < a[4]

\* C21: in the zone table, the areas of two different zones that are both
\* marked avoid do not overlap
C21_ExclusiveZonesDisjoint ==
    call.fn = "_define_layout_zones"
       => \A a \in DOMAIN call.out, b \in DOMAIN call.out :
             a # b /\ call.out[a].avoid /\ call.out[b].avoid
                => ~Overlap(call.out[a].area, call.out[b].area)

\* C22: after add_watermark has scaled the watermark, ten times the longer
\* of its width and height is at most the width of the canvas
C22_WatermarkTenth ==
    call.fn = "add_watermark" /\ ~call.raised
       => /\ 10 * call.size[1] <= call.image[1]
          /\ 10 * call.size[2] <= call.image[1]

\* C23: the background is synthesized at the width and height of the
\* request's size and the cover has that width and height
C23_RequestResolution ==
    call.fn = "render_cover"
       => /\ call.background = RequestSize(call.size)
          /\ call.out = RequestSize(call.size)
          /\ call.size = "STANDARD" => call.out = <<1800, 900>>
          /\ call.size = "HD" => call.out = <<1920, 1080>>

\* C24: with a non-empty custom prompt the prompt handed to the model is
\* that custom prompt and nothing else
C24_CustomPromptVerbatim ==
    call.fn = "generate_background" /\ Truthy(call.custom_prompt)
       => call.prompt = <<call.custom_prompt>>

\* a custom prompt was given together with a client and a title for which
\* the inferred prompt has a theme and a title fragment
C24_Witness ==
    /\ call.fn = "generate_background"
    /\ call.custom_prompt = "a lighthouse at dawn"
    /\ call.prompt = <<"a lighthouse at dawn">>
    /\ Len(build_crypto_prompt(call.enhancement, call.client_id)) = 4

Good(words) ==
    {i \in 1..(Len(words) - 1) :
        10 * Width(Join(SubSeq(words, 1, i)))
           >= 12 * Width(Join(SubSeq(words, i + 1, Len(words))))}

Distance(i, words) ==
    IF 2 * i >= Len(words) THEN 2 * i - Len(words) ELSE Len(words) - 2 * i

\* the split points of a set that are nearest to the middle word boundary
Nearest(points, words) ==
    {i \in points : \A k \in points : Distance(i, words) <= Distance(k, words)}

SplitAt(words, i) ==
    <<Join(SubSeq(words, 1, i)), Join(SubSeq(words, i + 1, Len(words)))>>

\* the two lines the rule of C25 asks for
RuleHolds(words, lines) ==
    Good(words) # {}
       => \E i \in Nearest(Good(words), words) : lines = SplitAt(words, i)

\* C25: a text that is wrapped is split at a word boundary that makes the
\* first line at least 20% wider than the second, the one nearest to the
\* middle among them, whenever there is one; a text of one word that is too
\* wide is split at its middle character
C25_WrapRule ==
    /\ call.fn = "smart_line_breaking" /\ Len(Split(call.text)) >= 3
          => RuleHolds(Split(call.text), call.out)
    /\ call.fn = "title_lines" /\ Width(call.text) > call.fit
          => LET title == Upper(call.text) IN
             IF Len(Split(title)) = 1
             THEN call.out = <<SubSeq(title, 1, Len(title) \div 2),
                               SubSeq(title, Len(title) \div 2 + 1, Len(title))>>
             ELSE Len(Split(title)) >= 2 => RuleHolds(Split(title), call.out)

====
